---- MODULE Spec2Model ----
(***************************************************************************)
(* State-machine model of corenlp/client.py: RobustService (the service    *)
(* supervisor) and CoreNLPClient (the annotation client built on it).      *)
(*                                                                         *)
(* One caller drives the object through its public methods.  A method that *)
(* blocks or talks to the network is split into steps named after the      *)
(* source lines they model; between two steps the remote endpoint may      *)
(* change what it answers (EnvChange).  Time is counted in whole seconds   *)
(* and advances only in time.sleep(1); a probe takes no time.  The program *)
(* reads the clock only as time.time() - start_time, which is the state    *)
(* variable elapsed.                                                       *)
(***************************************************************************)
EXTENDS Integers, FiniteSets, Sequences, TLC

\* ------------------------------------------------------------ bounds
\* Processes one supervisor may spawn in a run.
MaxProc == 2

\* ------------------------------------------------- program constants
\* RobustService.TIMEOUT
TIMEOUT == 15
\* self.server = None
None == 0

TimeoutMsg == "CoreNLP request timed out. Your document may be too long."
TextPlain == "text/plain; charset=utf-8"
Protobuf == "application/x-protobuf"

\* ------------------------------------------------------ input domains
Callers == {1, 2}
\* The callers that run in Spec: one logical thread of control.
MainCallers == {1}

\* What GET {endpoint}/ping meets: a 2xx answer, a non-2xx answer, a
\* connection that cannot be established, any other requests failure.
SvcStates == {"up", "unhealthy", "refused", "error"}

\* The value of properties["inputFormat"]: the key missing, the two
\* supported strings, another string, a value that is not a string.
InputFormats == {"absent", "text", "serialized", "xml", "int:5"}
\* The properties argument of annotate/update: None or an explicit mapping.
PropArgs == {"None", "absent", "text", "serialized"}

Statuses == {200, 304, 404, 500}
Bodies == {TimeoutMsg, "Annotator failed"}
\* What requests.post meets: a response, or no connection.
Responses == [status : Statuses, body : Bodies]
NoResponse == [status |-> 0, body |-> ""]
PostOutcomes == Responses \cup {[status |-> -1, body |-> ""]}

\* Exit codes of the configured stop command.
StopExitCodes == {0, 1}

\* ---- semgrex_matches_to_indexed_words: the inputs followed
\* Sentences in matches['sentences'] and entries in one sentence, at most.
MaxSent == 2
MaxEntries == 2
\* sent_index=None, the default of the parameter
NoIndex == -1
\* A sentence of the server's answer is a dict, here the sequence of its
\* items in order: the matches under the keys "0", "1", ... (a word record,
\* here its text) and the number of matches under the key "length".
WordKeys == {"0", "1"}
Words == {"a", "b"}
Entries == [k : WordKeys, v : Words] \cup {[k |-> "length", v |-> "1"]}
SeqsUpTo(S, n) == UNION {[1..k -> S] : k \in 0..n}
Sentences ==
  {s \in SeqsUpTo(Entries, MaxEntries) :
     \A i, j \in 1..Len(s) : i # j => s[i].k # s[j].k}
MatchInputs == SeqsUpTo(Sentences, MaxSent)
IndexInputs == {NoIndex} \cup (0..(MaxSent - 1))

VARIABLES
  \* RobustService fields
  start_cmd,      \* a start command is configured
  stop_cmd,       \* a stop command is configured
  server,         \* self.server: None or the pid of the last Popen
  is_active,      \* self.is_active
  \* CoreNLPClient.DEFAULT_PROPERTIES["inputFormat"] (the shared default dict)
  default_properties,
  \* the world
  svc,            \* what the endpoint answers to a probe right now
  spawned,        \* number of processes spawned so far (pids 1..spawned)
  killed,         \* pids the supervisor has sent kill() to
  \* the caller's frame
  pc,             \* position of each caller
  op,             \* the public method each caller is in / was last in
  elapsed,        \* ensure_alive's time.time() - start_time (-1: not polling)
  props,          \* _request's properties["inputFormat"]
  ctype,          \* _request's local ctype
  resp,           \* _request's local r
  outcome,        \* how the last call ended: [kind, detail]
  scope,          \* "out" or "in" a with-block on the supervisor
  \* observers (history, never read by the program)
  lastProbe,      \* outcome of the most recent liveness probe
  fast,           \* outcome of this call's ACTIVE fast-path probe
  probes,         \* probes made by this call
  posts,          \* HTTP POSTs issued by this call
  spawned0,       \* value of spawned when this call began
  upWait,         \* seconds this poll has slept since the endpoint last turned up
  entryPid,       \* process spawned by __enter__ of the open scope
  gets,           \* HTTP GETs to a regex path issued by this call
  readied,        \* some ensure_alive has come through line 110 and returned
  steady,         \* this call is an ensure_alive begun after one that returned
                  \* and the endpoint has answered "up" ever since it began
  \* semgrex_matches_to_indexed_words: its last arguments and result
  matches,        \* matches['sentences']
  sent_index,     \* the sent_index argument
  words           \* the list returned

sup == <<start_cmd, stop_cmd, server, is_active, default_properties>>
world == <<svc, spawned, killed>>
frame == <<pc, op, elapsed, props, ctype, resp, outcome, scope>>
hist == <<lastProbe, fast, probes, posts, spawned0, upWait, entryPid, gets,
          readied, steady>>
flat == <<matches, sent_index, words>>
vars == <<sup, world, frame, hist, flat>>

live == (1..spawned) \ killed

\* ------------------------------------------------------ pure functions

\* Variant: only server errors raise.
raise_for_status_ServerOnly(status) == 500 <= status /\ status < 600

\* requests.Response.raise_for_status: raises HTTPError for 4xx and 5xx.
raise_for_status(status) == 400 <= status /\ status < 600

\* requests.Response.ok
ok(status) == ~raise_for_status(status)

PingStatus(s) == IF s = "up" THEN 200 ELSE 503

\* RobustService.is_alive: the probe's result when the endpoint is in s.
is_alive(s) ==
  CASE s = "refused" -> [kind |-> "ShouldRetry", val |-> "ConnectionError"]
    [] s = "error"   -> [kind |-> "RequestException", val |-> ""]
    [] OTHER         -> [kind |-> "return",
                         val |-> IF ok(PingStatus(s)) THEN "True" ELSE "False"]

\* properties.get("inputFormat", "text")
input_format(p) == IF p = "absent" THEN "text" ELSE p

IsStr(v) == v # "int:5"

\* Variant: an unrecognized format is sent as plain text.
ContentType_Lenient(p) ==
  IF input_format(p) = "serialized" THEN Protobuf ELSE TextPlain

\* _request, lines 147-153: the content type, or the exception raised.
ContentType(p) ==
  LET f == input_format(p) IN
  CASE f = "text"       -> TextPlain
    [] f = "serialized" -> Protobuf
    [] IsStr(f)         -> "ValueError"
    [] OTHER            -> "TypeError"

\* _request, lines 160-164: the exception raised for an HTTPError.
ClassifyHTTPError(body) ==
  IF body = TimeoutMsg THEN "Timeout" ELSE "Annotation"

\* Variant: off by one, <= for <.
WithinTimeout_OffByOne(e) == e <= TIMEOUT

\* ensure_alive, line 104: time.time() - start_time < self.TIMEOUT
WithinTimeout(e) == e < TIMEOUT

\* `if sent_index:` (line 248): None and 0 are both false.
Truthy(x) == x # NoIndex /\ x # 0

\* k != 'length'
IsMatch(e) == e.k # "length"

\* dict(v, **dict([('sent_index', i)]))
Tagged(v, i) == [text |-> v, sent_index |-> i]

\* The inner loop of the comprehensions (lines 249-255) over the items of
\* sentence s, enumerated as i; cond is the extra `i == sent_index`.
ItemsOf(s, i, cond) ==
  LET kept == SelectSeq(s, IsMatch) IN
    IF cond THEN [j \in 1..Len(kept) |-> Tagged(kept[j].v, i)] ELSE <<>>

\* The outer loop over enumerate(matches['sentences']), first n sentences;
\* filter says which of the two comprehensions runs.
RECURSIVE Comprehension(_, _, _, _)
Comprehension(m, n, filter, si) ==
  IF n = 0
    THEN <<>>
    ELSE Comprehension(m, n - 1, filter, si)
           \o ItemsOf(m[n], n - 1, filter => (n - 1 = si))

\* Lines 241-257.
semgrex_matches_to_indexed_words(m, si) ==
  Comprehension(m, Len(m), Truthy(si), si)

\* ------------------------------------------------------------- Init

Init ==
  /\ start_cmd \in BOOLEAN
  /\ stop_cmd \in BOOLEAN
  /\ server = None
  /\ is_active = FALSE
  /\ default_properties = "absent"
  /\ svc \in SvcStates
  /\ spawned = 0
  /\ killed = {}
  /\ pc = [c \in Callers |-> "idle"]
  /\ op = [c \in Callers |-> "none"]
  /\ elapsed = [c \in Callers |-> -1]
  /\ props = [c \in Callers |-> "absent"]
  /\ ctype = [c \in Callers |-> ""]
  /\ resp = [c \in Callers |-> NoResponse]
  /\ outcome = [c \in Callers |-> [kind |-> "none", detail |-> ""]]
  /\ scope = [c \in Callers |-> "out"]
  /\ lastProbe = "none"
  /\ fast = [c \in Callers |-> "none"]
  /\ probes = [c \in Callers |-> 0]
  /\ posts = [c \in Callers |-> 0]
  /\ spawned0 = [c \in Callers |-> 0]
  /\ upWait = [c \in Callers |-> 0]
  /\ entryPid = [c \in Callers |-> None]
  /\ gets = [c \in Callers |-> 0]
  /\ readied = FALSE
  /\ steady = [c \in Callers |-> FALSE]
  /\ matches = <<>>
  /\ sent_index = NoIndex
  /\ words = <<>>

\* ---------------------------------------------------------- call frames

InFlight == Cardinality({c \in Callers : pc[c] # "idle"})

\* Room left under the bound for a call that may spawn.
Room == start_cmd => spawned + InFlight < MaxProc

\* A call of method o begins: fresh locals, fresh observers.
Call(c, o, p, at) ==
  /\ pc[c] = "idle"
  /\ pc' = [pc EXCEPT ![c] = at]
  /\ op' = [op EXCEPT ![c] = o]
  /\ props' = [props EXCEPT ![c] = p]
  /\ elapsed' = [elapsed EXCEPT ![c] = -1]
  /\ ctype' = [ctype EXCEPT ![c] = ""]
  /\ resp' = [resp EXCEPT ![c] = NoResponse]
  /\ outcome' = [outcome EXCEPT ![c] = [kind |-> "none", detail |-> ""]]
  /\ fast' = [fast EXCEPT ![c] = "none"]
  /\ probes' = [probes EXCEPT ![c] = 0]
  /\ posts' = [posts EXCEPT ![c] = 0]
  /\ gets' = [gets EXCEPT ![c] = 0]
  /\ spawned0' = [spawned0 EXCEPT ![c] = spawned]
  /\ steady' = [steady EXCEPT ![c] = o = "ensure_alive" /\ readied /\ svc = "up"]

\* A call that runs in one step: it begins and ends with outcome <<k, d>>.
Atomic(c, o, k, d) ==
  /\ pc[c] = "idle"
  /\ op' = [op EXCEPT ![c] = o]
  /\ outcome' = [outcome EXCEPT ![c] = [kind |-> k, detail |-> d]]
  /\ fast' = [fast EXCEPT ![c] = "none"]
  /\ probes' = [probes EXCEPT ![c] = 0]
  /\ posts' = [posts EXCEPT ![c] = 0]
  /\ gets' = [gets EXCEPT ![c] = 0]
  /\ spawned0' = [spawned0 EXCEPT ![c] = spawned]
  /\ elapsed' = [elapsed EXCEPT ![c] = -1]
  /\ props' = [props EXCEPT ![c] = "absent"]
  /\ ctype' = [ctype EXCEPT ![c] = ""]
  /\ resp' = [resp EXCEPT ![c] = NoResponse]
  /\ steady' = [steady EXCEPT ![c] = FALSE]
  /\ UNCHANGED pc

\* The call ends: it returns d (k = "return") or raises k with message d.
Finish(c, k, d) ==
  /\ pc' = [pc EXCEPT ![c] = "idle"]
  /\ outcome' = [outcome EXCEPT ![c] = [kind |-> k, detail |-> d]]

Goto(c, at) ==
  /\ pc' = [pc EXCEPT ![c] = at]
  /\ UNCHANGED outcome

\* One liveness probe with result r has been made (observers only).
ProbeTag(r) == IF r.kind = "return" THEN r.val ELSE r.kind

Probed(c, r) ==
  /\ lastProbe' = ProbeTag(r)
  /\ probes' = [probes EXCEPT ![c] = @ + 1]

\* ------------------------------------------------ RobustService.start

\* start(): spawn the process if a start command is configured.
start ==
  IF start_cmd
    THEN /\ spawned' = spawned + 1
         /\ server' = spawned + 1
    ELSE UNCHANGED <<spawned, server>>

Start(c) ==
  /\ Room
  /\ Atomic(c, "start", "return", "None")
  /\ start
  /\ UNCHANGED <<start_cmd, stop_cmd, is_active, default_properties>>
  /\ UNCHANGED <<svc, killed>>
  /\ UNCHANGED <<scope, lastProbe, upWait, entryPid>>
  /\ UNCHANGED <<readied, flat>>

\* ------------------------------------------------- RobustService.stop

\* subprocess.run(self.stop_cmd, check=True) raises on a non-zero exit.
StopRaises(rc) == stop_cmd /\ rc # 0

\* stop(): kill the process, run the stop command, clear is_active.
stop(rc) ==
  /\ killed' = IF server # None THEN killed \cup {server} ELSE killed
  /\ is_active' = IF StopRaises(rc) THEN is_active ELSE FALSE

Stop(c) ==
  \E rc \in StopExitCodes :
    /\ IF StopRaises(rc)
         THEN Atomic(c, "stop", "CalledProcessError", "")
         ELSE Atomic(c, "stop", "return", "None")
    /\ stop(rc)
    /\ UNCHANGED <<start_cmd, stop_cmd, server, default_properties>>
    /\ UNCHANGED <<svc, spawned>>
    /\ UNCHANGED <<scope, lastProbe, upWait, entryPid>>
    /\ UNCHANGED <<readied, flat>>

\* --------------------------------- RobustService.__enter__ / __exit__

EnterScope(c) ==
  /\ scope[c] = "out"
  /\ Room
  /\ Atomic(c, "__enter__", "return", "self")
  /\ start
  /\ scope' = [scope EXCEPT ![c] = "in"]
  /\ entryPid' = [entryPid EXCEPT ![c] = IF start_cmd THEN spawned + 1 ELSE None]
  /\ UNCHANGED <<start_cmd, stop_cmd, is_active, default_properties>>
  /\ UNCHANGED <<svc, killed>>
  /\ UNCHANGED <<lastProbe, upWait>>
  /\ UNCHANGED <<readied, flat>>

\* The with-block is left, by its body completing or by its body raising
\* (the last call's exception escaping): __exit__ runs stop() either way.
ExitScope(c) ==
  /\ scope[c] = "in"
  /\ \E rc \in StopExitCodes :
       /\ IF StopRaises(rc)
            THEN Atomic(c, "__exit__", "CalledProcessError", "")
            ELSE Atomic(c, "__exit__", "return", "None")
       /\ stop(rc)
  /\ scope' = [scope EXCEPT ![c] = "out"]
  /\ entryPid' = [entryPid EXCEPT ![c] = None]
  /\ UNCHANGED <<start_cmd, stop_cmd, server, default_properties>>
  /\ UNCHANGED <<svc, spawned>>
  /\ UNCHANGED <<lastProbe, upWait>>
  /\ UNCHANGED <<readied, flat>>

\* ------------------------------------------ RobustService.is_alive

CallIsAlive(c) ==
  /\ Call(c, "is_alive", "absent", "ia_probe")
  /\ UNCHANGED <<sup, world, scope, lastProbe, upWait, entryPid>>
  /\ UNCHANGED <<readied, flat>>

\* Lines 60-63: the probe's answer, or the exception it raises.
IaProbe(c) ==
  /\ pc[c] = "ia_probe"
  /\ LET r == is_alive(svc) IN
       /\ Probed(c, r)
       /\ Finish(c, r.kind, r.val)
  /\ UNCHANGED <<sup, world, op, elapsed, props, ctype, resp, scope>>
  /\ UNCHANGED <<fast, posts, gets, spawned0, upWait, entryPid>>
  /\ UNCHANGED <<readied, steady, flat>>

\* --------------------------------------- RobustService.ensure_alive

CallEnsureAlive(c) ==
  /\ Room
  /\ Call(c, "ensure_alive", "absent", "ea_active")
  /\ UNCHANGED <<sup, world, scope, lastProbe, upWait, entryPid>>
  /\ UNCHANGED <<readied, flat>>

\* ensure_alive returns val: to the caller, or into _request (line 144),
\* which drops the value; there ensure_alive's frame is gone (its local
\* clock and what was observed of it).
EaReturn(c, val) ==
  IF op[c] = "ensure_alive"
    THEN /\ Finish(c, "return", val)
         /\ UNCHANGED elapsed
    ELSE /\ Goto(c, "rq_format")
         /\ elapsed' = [elapsed EXCEPT ![c] = -1]

\* The observers of ensure_alive's frame when it returns, after pr probes.
EaObserved(c, f, pr) ==
  IF op[c] = "ensure_alive"
    THEN /\ fast' = [fast EXCEPT ![c] = f]
         /\ probes' = [probes EXCEPT ![c] = pr]
    ELSE /\ fast' = [fast EXCEPT ![c] = "none"]
         /\ probes' = [probes EXCEPT ![c] = 0]

\* Variant: the handler is missing.
Catches_Nothing(k) == FALSE

\* except ShouldRetryException: pass (lines 88-89 and 101-102)
Catches(k) == k = "ShouldRetry"

\* Line 85: if self.is_active
EaActive(c) ==
  /\ pc[c] = "ea_active"
  /\ Goto(c, IF is_active THEN "ea_fast" ELSE "ea_server")
  /\ UNCHANGED <<sup, world, op, elapsed, props, ctype, resp, scope, hist>>
  /\ UNCHANGED flat

\* Lines 86-89: return self.is_alive(), a ShouldRetry falls through.
EaFast(c) ==
  /\ pc[c] = "ea_fast"
  /\ LET r == is_alive(svc) IN
       /\ lastProbe' = ProbeTag(r)
       /\ CASE r.kind = "return" -> /\ EaReturn(c, r.val)
                                    /\ EaObserved(c, ProbeTag(r), probes[c] + 1)
            [] Catches(r.kind)   -> /\ Goto(c, "ea_server")
                                    /\ fast' = [fast EXCEPT ![c] = ProbeTag(r)]
                                    /\ probes' = [probes EXCEPT ![c] = @ + 1]
                                    /\ UNCHANGED elapsed
            [] OTHER             -> /\ Finish(c, r.kind, r.val)
                                    /\ fast' = [fast EXCEPT ![c] = ProbeTag(r)]
                                    /\ probes' = [probes EXCEPT ![c] = @ + 1]
                                    /\ UNCHANGED elapsed
  /\ UNCHANGED <<sup, world, op, props, ctype, resp, scope>>
  /\ UNCHANGED <<posts, gets, spawned0, upWait, entryPid>>
  /\ UNCHANGED <<readied, steady, flat>>

\* Variant: start() is called whether or not a handle is recorded.
EaServer_AlwaysSpawn(c) ==
  /\ pc[c] = "ea_server"
  /\ Goto(c, "ea_spawn")
  /\ UNCHANGED <<sup, world, op, elapsed, props, ctype, resp, scope, hist>>
  /\ UNCHANGED flat

\* Line 92: if self.server is None
EaServer(c) ==
  /\ pc[c] = "ea_server"
  /\ Goto(c, IF server = None THEN "ea_spawn" ELSE "ea_clock")
  /\ UNCHANGED <<sup, world, op, elapsed, props, ctype, resp, scope, hist>>
  /\ UNCHANGED flat

\* Variant: start() is not called.
EaSpawn_Skip(c) ==
  /\ pc[c] = "ea_spawn"
  /\ Goto(c, "ea_clock")
  /\ UNCHANGED <<sup, world, op, elapsed, props, ctype, resp, scope, hist>>
  /\ UNCHANGED flat

\* Line 93: self.start()
EaSpawn(c) ==
  /\ pc[c] = "ea_spawn"
  /\ start
  /\ Goto(c, "ea_clock")
  /\ UNCHANGED <<start_cmd, stop_cmd, is_active, default_properties>>
  /\ UNCHANGED <<svc, killed>>
  /\ UNCHANGED <<op, elapsed, props, ctype, resp, scope, hist>>
  /\ UNCHANGED flat

\* Line 96: start_time = time.time()
EaClock(c) ==
  /\ pc[c] = "ea_clock"
  /\ elapsed' = [elapsed EXCEPT ![c] = 0]
  /\ upWait' = [upWait EXCEPT ![c] = 0]
  /\ Goto(c, "ea_poll")
  /\ UNCHANGED <<sup, world, op, props, ctype, resp, scope>>
  /\ UNCHANGED <<lastProbe, fast, probes, posts, gets, spawned0, entryPid>>
  /\ UNCHANGED <<readied, steady, flat>>

\* Variant: a probe of an endpoint that refuses connections never answers.
EaPoll_Hangs(c) ==
  /\ svc # "refused"
  /\ pc[c] = "ea_poll"
  /\ LET r == is_alive(svc) IN
       /\ Probed(c, r)
       /\ CASE r.kind = "return" -> Goto(c, IF r.val = "True" THEN "ea_set"
                                                              ELSE "ea_timeout")
            [] Catches(r.kind)   -> Goto(c, "ea_timeout")
            [] OTHER             -> Finish(c, r.kind, r.val)
  /\ UNCHANGED <<sup, world, op, elapsed, props, ctype, resp, scope>>
  /\ UNCHANGED <<fast, posts, gets, spawned0, upWait, entryPid>>
  /\ UNCHANGED <<readied, steady, flat>>

\* Lines 98-102: one probe of the polling loop.
EaPoll(c) ==
  /\ pc[c] = "ea_poll"
  /\ LET r == is_alive(svc) IN
       /\ Probed(c, r)
       /\ CASE r.kind = "return" -> Goto(c, IF r.val = "True" THEN "ea_set"
                                                              ELSE "ea_timeout")
            [] Catches(r.kind)   -> Goto(c, "ea_timeout")
            [] OTHER             -> Finish(c, r.kind, r.val)
  /\ UNCHANGED <<sup, world, op, elapsed, props, ctype, resp, scope>>
  /\ UNCHANGED <<fast, posts, gets, spawned0, upWait, entryPid>>
  /\ UNCHANGED <<readied, steady, flat>>

\* Variant: _request's handler takes the gate's failure for an HTTP error.
EaTimeout_Wrapped(c) ==
  /\ pc[c] = "ea_timeout"
  /\ IF WithinTimeout(elapsed[c])
       THEN /\ elapsed' = [elapsed EXCEPT ![c] = @ + 1]
            /\ upWait' = [upWait EXCEPT ![c] = IF svc = "up" THEN @ + 1 ELSE 0]
            /\ Goto(c, "ea_poll")
       ELSE /\ Finish(c, IF op[c] = "ensure_alive" THEN "PermanentlyFailed"
                                                     ELSE "Annotation",
                      "Timed out waiting for service to come alive.")
            /\ UNCHANGED <<elapsed, upWait>>
  /\ UNCHANGED <<sup, world, op, props, ctype, resp, scope>>
  /\ UNCHANGED <<lastProbe, fast, probes, posts, gets, spawned0, entryPid>>
  /\ UNCHANGED <<readied, steady, flat>>

\* Lines 104-107: sleep one second and poll again, or give up.
EaTimeout(c) ==
  /\ pc[c] = "ea_timeout"
  /\ IF WithinTimeout(elapsed[c])
       THEN /\ elapsed' = [elapsed EXCEPT ![c] = @ + 1]
            /\ upWait' = [upWait EXCEPT ![c] = IF svc = "up" THEN @ + 1 ELSE 0]
            /\ Goto(c, "ea_poll")
       ELSE /\ Finish(c, "PermanentlyFailed",
                      "Timed out waiting for service to come alive.")
            /\ UNCHANGED <<elapsed, upWait>>
  /\ UNCHANGED <<sup, world, op, props, ctype, resp, scope>>
  /\ UNCHANGED <<lastProbe, fast, probes, posts, gets, spawned0, entryPid>>
  /\ UNCHANGED <<readied, steady, flat>>

\* Variant: the loop is left without recording that the service is active.
EaSet_NoActivate(c) ==
  /\ pc[c] = "ea_set"
  /\ readied' = TRUE
  /\ EaReturn(c, "None")
  /\ EaObserved(c, fast[c], probes[c])
  /\ UNCHANGED <<sup, world, op, props, ctype, resp, scope>>
  /\ UNCHANGED <<lastProbe, posts, gets, spawned0, upWait, entryPid>>
  /\ UNCHANGED <<steady, flat>>

\* Line 110: self.is_active = True, then the implicit return None.
EaSet(c) ==
  /\ pc[c] = "ea_set"
  /\ is_active' = TRUE
  /\ readied' = TRUE
  /\ EaReturn(c, "None")
  /\ EaObserved(c, fast[c], probes[c])
  /\ UNCHANGED <<start_cmd, stop_cmd, server, default_properties>>
  /\ UNCHANGED <<world, op, props, ctype, resp, scope>>
  /\ UNCHANGED <<lastProbe, posts, gets, spawned0, upWait, entryPid>>
  /\ UNCHANGED <<steady, flat>>

\* ------------------------------------------- CoreNLPClient._request

CallRequest(c, p) ==
  /\ Room
  /\ Call(c, "_request", p, "ea_active")
  /\ UNCHANGED <<sup, world, scope, lastProbe, upWait, entryPid>>
  /\ UNCHANGED <<readied, flat>>

\* Lines 147-153: choose the content type or raise.
RqFormat(c) ==
  /\ pc[c] = "rq_format"
  /\ LET ct == ContentType(props[c]) IN
       IF ct \in {"ValueError", "TypeError"}
         THEN /\ Finish(c, ct, "Unrecognized inputFormat")
              /\ UNCHANGED ctype
         ELSE /\ ctype' = [ctype EXCEPT ![c] = ct]
              /\ Goto(c, "rq_post")
  /\ UNCHANGED <<sup, world, op, elapsed, props, resp, scope, hist>>
  /\ UNCHANGED flat

\* What _request does with the response r (lines 158-164, and for annotate
\* and update the decoding that follows).
Respond(c, r) ==
  IF raise_for_status(r.status)
    THEN Finish(c, ClassifyHTTPError(r.body), r.body)
    ELSE IF op[c] = "_request"
           THEN Finish(c, "return", "response")
           ELSE Goto(c, "parse")

\* Lines 155-164: the POST and the classification of its outcome.
RqPost(c) ==
  /\ pc[c] = "rq_post"
  /\ posts' = [posts EXCEPT ![c] = @ + 1]
  /\ \E o \in PostOutcomes :
       IF o.status = -1
         THEN /\ Finish(c, "ConnectionError", "")
              /\ UNCHANGED resp
         ELSE /\ resp' = [resp EXCEPT ![c] = o]
              /\ Respond(c, o)
  /\ UNCHANGED <<sup, world, op, elapsed, props, ctype, scope>>
  /\ UNCHANGED <<lastProbe, fast, probes, spawned0, upWait, entryPid, gets>>
  /\ UNCHANGED <<readied, steady, flat>>

\* ------------------------------ CoreNLPClient.annotate / update

\* properties is None: the default mapping is updated in place and used.
CallAnnotate(c, a) ==
  /\ Room
  /\ Call(c, "annotate", IF a = "None" THEN "text" ELSE a, "ea_active")
  /\ default_properties' = IF a = "None" THEN "text" ELSE default_properties
  /\ UNCHANGED <<start_cmd, stop_cmd, server, is_active>>
  /\ UNCHANGED <<world, scope, lastProbe, upWait, entryPid>>
  /\ UNCHANGED <<readied, flat>>

CallUpdate(c, a) ==
  /\ Room
  /\ Call(c, "update", IF a = "None" THEN "serialized" ELSE a, "ea_active")
  /\ default_properties' = IF a = "None" THEN "serialized" ELSE default_properties
  /\ UNCHANGED <<start_cmd, stop_cmd, server, is_active>>
  /\ UNCHANGED <<world, scope, lastProbe, upWait, entryPid>>
  /\ UNCHANGED <<readied, flat>>

\* Lines 182-184 and 200-202: decode the response into a Document.
Parse(c) ==
  /\ pc[c] = "parse"
  /\ Finish(c, "return", "doc")
  /\ UNCHANGED <<sup, world, op, elapsed, props, ctype, resp, scope, hist>>
  /\ UNCHANGED flat

\* ------------------ CoreNLPClient.tokensregex / semgrex / tregrex

\* What requests.get does for __regex: an answer of any status, whose text
\* is returned (decoded as JSON when it is JSON), or a connection error.
GetOutcomes == {"output", "ConnectionError"}

\* Variant: the query passes the readiness gate first.
RegexEntry_Gated == "ea_active"

\* Lines 205, 211, 217 and 228: the first thing a query does is the GET.
RegexEntry == "rx_get"

CallRegex(c, o) ==
  /\ Call(c, o, "absent", RegexEntry)
  /\ UNCHANGED <<sup, world, scope, lastProbe, upWait, entryPid>>
  /\ UNCHANGED <<readied, flat>>

\* tokensregex (which asks the path /semgrex, line 205), semgrex, tregrex
CallTokensregex(c) == CallRegex(c, "tokensregex")

CallSemgrex(c) == CallRegex(c, "semgrex")

CallTregrex(c) == CallRegex(c, "tregrex")

\* Lines 228-239: __regex, one GET; no status is an error to it.
RxGet(c) ==
  /\ pc[c] = "rx_get"
  /\ gets' = [gets EXCEPT ![c] = @ + 1]
  /\ \E o \in GetOutcomes :
       IF o = "ConnectionError"
         THEN Finish(c, "ConnectionError", "")
         ELSE Finish(c, "return", o)
  /\ UNCHANGED <<sup, world, op, elapsed, props, ctype, resp, scope>>
  /\ UNCHANGED <<lastProbe, fast, probes, posts, spawned0, upWait, entryPid>>
  /\ UNCHANGED <<readied, steady, flat>>

\* ------------------------------------------------------ environment

\* The endpoint starts answering differently.
EnvChange ==
  /\ \E s \in SvcStates \ {svc} : svc' = s
  /\ upWait' = [c \in Callers |-> 0]
  /\ steady' = [c \in Callers |-> FALSE]
  /\ UNCHANGED <<sup, spawned, killed, frame>>
  /\ UNCHANGED <<lastProbe, fast, probes, posts, gets, spawned0, entryPid>>
  /\ UNCHANGED <<readied, flat>>

\* ------------------------- semgrex_matches_to_indexed_words, one call

\* The static method is called once, with any of the inputs followed.
Flatten ==
  /\ matches = <<>> /\ sent_index = NoIndex
  /\ \E m \in MatchInputs, i \in IndexInputs :
       /\ matches' = m
       /\ sent_index' = i
       /\ words' = semgrex_matches_to_indexed_words(m, i)
  /\ UNCHANGED <<sup, world, frame, hist>>

NextFlatten == Flatten

SpecFlatten == Init /\ [][NextFlatten]_vars

\* ------------------------------------------------------ specification

Next ==
  \/ \E c \in MainCallers :
       \/ Start(c)
       \/ Stop(c)
       \/ EnterScope(c)
       \/ ExitScope(c)
       \/ CallIsAlive(c)
       \/ IaProbe(c)
       \/ CallEnsureAlive(c)
       \/ EaActive(c)
       \/ EaFast(c)
       \/ EaServer(c)
       \/ EaSpawn(c)
       \/ EaClock(c)
       \/ EaPoll(c)
       \/ EaTimeout(c)
       \/ EaSet(c)
       \/ \E p \in InputFormats : CallRequest(c, p)
       \/ RqFormat(c)
       \/ RqPost(c)
       \/ \E a \in PropArgs : CallAnnotate(c, a)
       \/ \E a \in PropArgs : CallUpdate(c, a)
       \/ Parse(c)
       \/ CallTokensregex(c)
       \/ CallSemgrex(c)
       \/ CallTregrex(c)
       \/ RxGet(c)
  \/ EnvChange

Spec == Init /\ [][Next]_vars

\* -------------------------------- the supervisor alone, its thread fair

\* The next statement of an ensure_alive in progress.
EaStep(c) ==
  \/ EaActive(c)
  \/ EaFast(c)
  \/ EaServer(c)
  \/ EaSpawn(c)
  \/ EaClock(c)
  \/ EaPoll(c)
  \/ EaTimeout(c)
  \/ EaSet(c)

\* RobustService used directly: start, stop and ensure_alive.
NextLive ==
  \/ \E c \in MainCallers :
       \/ Start(c)
       \/ Stop(c)
       \/ CallEnsureAlive(c)
       \/ EaActive(c)
       \/ EaFast(c)
       \/ EaServer(c)
       \/ EaSpawn(c)
       \/ EaClock(c)
       \/ EaPoll(c)
       \/ EaTimeout(c)
       \/ EaSet(c)
  \/ EnvChange

\* The calling thread keeps running: a probe answers or raises, a sleep
\* ends, and the statement after it is executed.
Fairness == \A c \in MainCallers : WF_vars(EaStep(c))

SpecLive == Init /\ [][NextLive]_vars /\ Fairness

\* ------------------------- one supervisor shared by concurrent callers

\* Each caller is a thread using ensure_alive, directly or through
\* _request; the statements of the threads interleave. The endpoint goes on
\* answering as it did when the supervisor was constructed.
NextConc ==
  \E c \in Callers :
     \/ CallEnsureAlive(c)
     \/ EaActive(c)
     \/ EaFast(c)
     \/ EaServer(c)
     \/ EaSpawn(c)
     \/ EaClock(c)
     \/ EaPoll(c)
     \/ EaTimeout(c)
     \/ EaSet(c)
     \/ \E p \in InputFormats : CallRequest(c, p)
     \/ RqFormat(c)
     \/ RqPost(c)

SpecConc == Init /\ [][NextConc]_vars

\* ================================================================ claims

\* The calls that pass the readiness gate before posting.
Requesters == {"_request", "annotate", "update"}
Gated == {"ensure_alive"} \cup Requesters

Idle(c) == pc[c] = "idle"
Returned(c) == Idle(c) /\ outcome[c].kind = "return"
Raised(c, k) == Idle(c) /\ outcome[c].kind = k

\* ensure_alive has returned normally to whoever called it.
GatePassed(c) ==
  \/ op[c] = "ensure_alive" /\ Returned(c)
  \/ pc[c] \in {"rq_format", "rq_post", "parse"}

\* ---------------------------------------------------------------- C1
\* C1: ensure_alive returns normally only if a probe of that call returned
\* true, so the POST of _request is never issued unless the most recent
\* liveness probe returned true -- also when the supervisor is ACTIVE and
\* the fast-path probe answers false.
C1_ReadinessGate ==
  \A c \in Callers :
    /\ GatePassed(c) => lastProbe = "True"
    /\ posts[c] > 0 => lastProbe = "True"

\* ---------------------------------------------------------------- C2
\* C2: from every supervisor state, if the endpoint starts answering true
\* before TIMEOUT seconds of polling have passed (and keeps doing so),
\* ensure_alive returns normally with is_active set, at most one polling
\* interval after the endpoint turned up: a normal return leaves is_active
\* true; the poll never sleeps more than one second on an endpoint that is up
\* and probes right after that second; and it gives up only when TIMEOUT
\* seconds have passed without the endpoint having been up before.
C2_ReadyWithinTimeout ==
  \A c \in Callers :
    /\ GatePassed(c) => is_active
    /\ upWait[c] <= 1
    /\ (pc[c] = "ea_timeout" /\ svc = "up") => upWait[c] = 0
    /\ Raised(c, "PermanentlyFailed") =>
         /\ elapsed[c] >= TIMEOUT
         /\ svc = "up" => upWait[c] = 0

\* The endpoint refused connections for three seconds, turned up during the
\* third sleep, and the call that began ACTIVE returned ACTIVE.
C2_Witness ==
  /\ op[1] = "ensure_alive" /\ Returned(1)
  /\ fast[1] = "ShouldRetry"
  /\ elapsed[1] = 3 /\ upWait[1] = 1 /\ svc = "up"
  /\ is_active

\* ---------------------------------------------------------------- C3
\* The polling loop is left only by a true probe; the failure is raised at
\* elapsed = TIMEOUT, after TIMEOUT sleeps and TIMEOUT + 1 polling probes.
C3_FailureState ==
  \A c \in Callers :
    /\ pc[c] = "ea_set" => lastProbe = "True"
    /\ (op[c] = "ensure_alive" /\ Returned(c) /\ elapsed[c] >= 0) =>
         lastProbe = "True"
    /\ Raised(c, "PermanentlyFailed") =>
         /\ elapsed[c] = TIMEOUT
         /\ probes[c] = TIMEOUT + 1 + (IF fast[c] = "none" THEN 0 ELSE 1)
         /\ lastProbe \in {"False", "ShouldRetry"}

\* While the failure stands, nothing is probed and no time is slept.
C3_NothingAfterFailure ==
  \A c \in Callers :
    (outcome[c].kind = "PermanentlyFailed" /\ outcome'[c].kind = "PermanentlyFailed")
      => (probes'[c] = probes[c] /\ elapsed'[c] = elapsed[c] /\ lastProbe' = lastProbe)

\* C3: when no probe returns true within the timeout window counted from
\* the start of polling, ensure_alive fails with PermanentlyFailed; it does
\* so only once TIMEOUT seconds have elapsed, right after the failed probe
\* of that second, and while the failure stands no probe and no sleep
\* follows.
C3_PermanentlyFailed == []C3_FailureState /\ [][C3_NothingAfterFailure]_vars

\* The endpoint answered 503 to every probe for the whole window.
C3_Witness ==
  /\ op[1] = "ensure_alive" /\ Raised(1, "PermanentlyFailed")
  /\ fast[1] = "none" /\ lastProbe = "False"
  /\ elapsed[1] = TIMEOUT /\ probes[1] = TIMEOUT + 1

\* ---------------------------------------------------------------- C4
\* C4: with a start command configured, at most one process spawned by the
\* supervisor is alive (spawned and not yet killed by it) in every state.
C4_AtMostOneLiveChild == Cardinality(live) <= 1

\* ---------------------------------------------------------------- C5
InvalidFormat(p) == input_format(p) \notin {"text", "serialized"}

Answered(c) == op[c] = "_request" /\ Idle(c) /\ resp[c] # NoResponse

ErrorFor(body) ==
  [kind |-> IF body = TimeoutMsg THEN "Timeout" ELSE "Annotation", detail |-> body]

C6_Classified ==
  \A c \in Callers :
    Answered(c) =>
      IF resp[c].status >= 400 /\ resp[c].status <= 599
        THEN outcome[c] = ErrorFor(resp[c].body)
        ELSE outcome[c] = [kind |-> "return", detail |-> "response"]

\* The POST step leaves is_active and the process handle alone.
C6_PostKeepsSupervisor ==
  \A c \in Callers :
    pc[c] = "rq_post" =>
      <<is_active, server, spawned, killed>>' = <<is_active, server, spawned, killed>>

C7_NoSilentFailure ==
  \A c \in Callers :
    (op[c] = "_request" /\ Idle(c) /\ outcome[c].kind # "return") =>
      outcome[c].kind \in {"PermanentlyFailed", "Timeout", "ValueError", "Annotation"}

\* ---------------------------------------------------------------- C8
\* C8: after every stop(), returning or raising, is_active is false; and
\* without a stop command and without a spawned process stop() raises
\* nothing.
C8_StopClearsActive ==
  \A c \in Callers :
    (op[c] = "stop" /\ Idle(c)) =>
      /\ ~is_active
      /\ (~stop_cmd /\ server = None) => outcome[c].kind = "return"

\* ---------------------------------------------------------------- C9
\* The step that leaves the with-block.
C9_Exit ==
  \A c \in Callers :
    (scope[c] = "in" /\ scope'[c] = "out") =>
      /\ ~is_active'
      /\ entryPid[c] # None => entryPid[c] \in killed'

\* C9: leaving a with-block, normally or by an exception, runs stop() once;
\* afterwards the process spawned on entry has been killed and is_active is
\* false.
C9_ScopedLifetime == [][C9_Exit]_vars

\* --------------------------------------------------------------- C10
\* C10: no ensure_alive, _request, annotate or update ends with
\* ShouldRetry: every ShouldRetry a probe raises is absorbed in
\* ensure_alive, on the fast path and in the polling loop.
C10_ShouldRetryAbsorbed ==
  \A c \in Callers :
    op[c] \in Gated => outcome[c].kind # "ShouldRetry"

\* Both handlers absorbed a ShouldRetry, and the call ended with
\* PermanentlyFailed instead.
C10_Witness ==
  /\ op[1] = "annotate" /\ Raised(1, "PermanentlyFailed")
  /\ fast[1] = "ShouldRetry" /\ lastProbe = "ShouldRetry"


\* --------------------------------------------------------------- C11
\* C11: the content type of the POST is fixed by the operation: every POST
\* issued by annotate carries text/plain; charset=utf-8 and every POST issued
\* by update carries application/x-protobuf, whatever properties were passed.
C11_ContentTypeByOperation ==
  \A c \in Callers :
    posts[c] > 0 =>
      /\ op[c] = "annotate" => ctype[c] = TextPlain
      /\ op[c] = "update" => ctype[c] = Protobuf

\* --------------------------------------------------------------- C12
\* The word records of sentence number i (from 0), one per entry other than
\* `length`, in the sentence's order, each tagged with i.
RecordsOf(i) ==
  LET s == matches[i + 1]
      at == {j \in 1..Len(s) : s[j].k # "length"}
      nth(n) == CHOOSE j \in at : Cardinality({h \in at : h < j}) = n - 1
  IN [n \in 1..Cardinality(at) |-> [text |-> s[nth(n)].v, sent_index |-> i]]

RECURSIVE RecordsUpTo(_)
RecordsUpTo(n) == IF n = 0 THEN <<>> ELSE RecordsUpTo(n - 1) \o RecordsOf(n - 1)

\* C12: the list returned holds exactly one word record per non-`length`
\* entry of each sentence, in sentence order, tagged with its sentence index;
\* when sent_index is given (any valid index, 0 included) it holds only the
\* records of that sentence.
C12_FlattenMatches ==
  /\ sent_index = NoIndex => words = RecordsUpTo(Len(matches))
  /\ sent_index \in 0..(Len(matches) - 1) => words = RecordsOf(sent_index)

\* --------------------------------------------------------------- C13
QueryOps == {"tokensregex", "semgrex", "tregrex"}

\* Caller c takes a step of a query operation.
QueryStep(c) ==
  /\ op'[c] \in QueryOps
  /\ <<pc[c], op[c], outcome[c], gets[c]>>' # <<pc[c], op[c], outcome[c], gets[c]>>

\* A completed query has issued one GET, no probe and no POST.
C13_QueryDone ==
  \A c \in Callers :
    (op[c] \in QueryOps /\ Idle(c)) =>
      gets[c] = 1 /\ probes[c] = 0 /\ posts[c] = 0

\* No step of a query probes, spawns, terminates or touches the supervisor.
C13_QueryFrame ==
  \A c \in Callers :
    QueryStep(c) =>
      /\ UNCHANGED <<server, is_active, spawned, killed, lastProbe>>
      /\ probes'[c] = 0

\* C13: tokensregex, semgrex and tregrex pass no readiness gate: a call issues
\* exactly one HTTP GET, no liveness probe, spawns and terminates nothing and
\* leaves is_active and the process handle as they were, in every supervisor
\* state.
C13_NoReadinessGate == []C13_QueryDone /\ [][C13_QueryFrame]_vars

\* A query answered while the supervisor, with a start command, has neither
\* spawned nor seen the service alive: the gate would have spawned here.
C13_Witness ==
  \E c \in Callers :
    /\ op[c] \in QueryOps /\ Returned(c) /\ gets[c] = 1
    /\ start_cmd /\ server = None /\ ~is_active /\ spawned = 0

\* --------------------------------------------------------------- C14
\* A further ensure_alive call, from its first step to its return, while the
\* endpoint keeps answering "up".
Further(c) == op[c] = "ensure_alive" /\ steady[c]

C14_FurtherCall ==
  \A c \in Callers :
    Further(c) =>
      /\ probes[c] <= 1
      /\ spawned = spawned0[c]
      /\ elapsed[c] <= 0
      /\ Idle(c) => Returned(c) /\ probes[c] = 1 /\ is_active

C14_SameHandle ==
  \A c \in Callers : (Further(c) /\ steady'[c]) => server' = server

\* C14: once ensure_alive has returned and while the service keeps answering
\* probes with true, every further ensure_alive call issues exactly one probe,
\* spawns nothing, does not sleep and leaves the supervisor active with the
\* same process handle.
C14_Idempotent == []C14_FurtherCall /\ [][C14_SameHandle]_vars

\* A further call that went through the polling loop (the supervisor had
\* been stopped, the process killed) and returned after its first probe.
C14_Witness ==
  \E c \in Callers :
    /\ Further(c) /\ Returned(c)
    /\ fast[c] = "none" /\ probes[c] = 1 /\ elapsed[c] = 0
    /\ start_cmd /\ server \in killed /\ is_active

\* --------------------------------------------------------------- C15
\* The call did not end on the fast path: it was not active when it began or
\* its fast-path probe raised ShouldRetry.
FellThrough(c) == fast[c] \in {"none", "ShouldRetry"}

\* Past line 93, inside ensure_alive.
PastStart(c) == pc[c] \in {"ea_clock", "ea_poll", "ea_timeout", "ea_set"}

\* start() is about to be called only off the fast path with no handle.
C15_OnlyIf ==
  \A c \in Callers :
    pc[c] = "ea_spawn" => FellThrough(c) /\ server = None /\ spawned0[c] = spawned

\* Off the fast path with no handle, start() has been called: with a start
\* command a process was spawned and recorded; and none is spawned otherwise.
C15_If ==
  \A c \in Callers :
    (op[c] \in Gated /\ PastStart(c)) =>
      /\ FellThrough(c)
      /\ start_cmd => server # None
      /\ spawned = spawned0[c] + (IF start_cmd /\ spawned0[c] = 0 THEN 1 ELSE 0)

\* The same, of a completed ensure_alive.
C15_Completed ==
  \A c \in Callers :
    (op[c] = "ensure_alive" /\ Idle(c)) =>
      /\ spawned \in {spawned0[c], spawned0[c] + 1}
      /\ spawned = spawned0[c] + 1 <=>
           (FellThrough(c) /\ start_cmd /\ spawned0[c] = 0)
      /\ (Returned(c) /\ FellThrough(c)) =>
           is_active /\ lastProbe = "True" /\ elapsed[c] \in 0..TIMEOUT

PollProbes(c) == probes[c] - (IF fast[c] = "none" THEN 0 ELSE 1)

\* The loop makes at most TIMEOUT + 1 probes, and a call whose probes all
\* answered (true, false or ShouldRetry) ends by returning or with
\* PermanentlyFailed.
C16_Bounded ==
  \A c \in Callers :
    op[c] = "ensure_alive" =>
      /\ PollProbes(c) <= TIMEOUT + 1
      /\ (Idle(c) /\ lastProbe # "RequestException") =>
           outcome[c].kind \in {"return", "PermanentlyFailed"}

C16_Completes ==
  \A c \in Callers : (op[c] = "ensure_alive" /\ ~Idle(c)) ~> Idle(c)

\* C16: every ensure_alive call runs to completion: with probes that answer
\* and a clock that advances with each sleep it returns or fails with
\* PermanentlyFailed after at most TIMEOUT + 1 polling probes; it never polls
\* forever.
C16_Terminates == []C16_Bounded /\ C16_Completes

\* A call that gave up after exactly TIMEOUT + 1 polling probes.
C16_Witness ==
  \E c \in Callers :
    /\ op[c] = "ensure_alive" /\ Raised(c, "PermanentlyFailed")
    /\ PollProbes(c) = TIMEOUT + 1 /\ elapsed[c] = TIMEOUT

\* --------------------------------------------------------------- C17
\* C17: when ensure_alive has failed with PermanentlyFailed the supervisor is
\* not left active: is_active is false after the failure, also when the call
\* began active and fell through after a ShouldRetry on the fast path.
C17_FailureNotActive ==
  \A c \in Callers :
    (op[c] = "ensure_alive" /\ Raised(c, "PermanentlyFailed")) => ~is_active

\* --------------------------------------------------------------- C18
GateFailure == "Timed out waiting for service to come alive."

\* The gate of a request gives up: the loop's clock has reached the timeout.
GateGivesUp(c) ==
  /\ op[c] \in Requesters
  /\ pc[c] = "ea_timeout" /\ ~WithinTimeout(elapsed[c])
  /\ pc'[c] # pc[c]

\* The call ends there with the gate's own exception.
C18_Propagates ==
  \A c \in Callers :
    GateGivesUp(c) =>
      /\ pc'[c] = "idle"
      /\ outcome'[c] = [kind |-> "PermanentlyFailed", detail |-> GateFailure]

\* A request that failed so has posted nothing and decoded nothing.
C18_NothingSent ==
  \A c \in Callers :
    (op[c] \in Requesters /\ Raised(c, "PermanentlyFailed")) =>
      posts[c] = 0 /\ ctype[c] = "" /\ resp[c] = NoResponse

\* C18: when ensure_alive fails with PermanentlyFailed inside _request, the
\* exception reaches the caller of _request unchanged and no POST is issued;
\* annotate and update pass it on without decoding a response.
C18_GateFailurePropagates == []C18_NothingSent /\ [][C18_Propagates]_vars

\* annotate has failed with the gate's PermanentlyFailed.
C18_Witness ==
  \E c \in Callers :
    /\ op[c] = "annotate" /\ Raised(c, "PermanentlyFailed")
    /\ outcome[c].detail = GateFailure /\ posts[c] = 0

\* --------------------------------------------------------------- C19
\* C19: two callers use ensure_alive concurrently, directly or through
\* _request, on a supervisor with a start command and nothing spawned: every
\* interleaving spawns at most one process, and the handle recorded at the
\* end owns every process spawned.
C19_OneChildUnderConcurrency ==
  /\ spawned <= 1
  /\ spawned = 1 => server = 1

\* --------------------------------------------------------------- C20
\* C20: annotate and update leave the client's default property mapping as
\* it was constructed (DEFAULT_PROPERTIES = {}, no inputFormat), so what a
\* call sends depends on its arguments and the construction only.
C20_DefaultsUnchanged == default_properties = "absent"

====
